---- MODULE Spec2Model ----
(***************************************************************************)
(* Model of agent.py: the app_mention handler of the Slack/Ollama bot.     *)
(*                                                                         *)
(* Python str values that the code inspects (event text, message text,    *)
(* user names, the transcript) are sequences of one-character strings, so  *)
(* that `in`, str.replace, re.sub, str.split and str.lower are computed    *)
(* character by character.  The fixed reply literals, which the code only  *)
(* passes on, are single TLA+ strings.                                     *)
(***************************************************************************)
EXTENDS Integers, Sequences, FiniteSets, TLC

VARIABLES
    pc,          \* position of the running call
    body,        \* handle_mention: the inbound event body
    locals,      \* handle_mention: the local names bound so far
    calls,       \* say / chat_postEphemeral calls made, in order, with outcome
    llm_calls,   \* chain.invoke calls made, in order
    replies,     \* what client.conversations_replies did
    users,       \* what client.users_info does, per user id
    raised,      \* the exception that left the function ("" when none)
    arg,         \* clean_message_text / get_thread_messages run alone: input
    ret          \* clean_message_text / get_thread_messages run alone: result

vars == <<pc, body, locals, calls, llm_calls, replies, users, raised, arg, ret>>

-----------------------------------------------------------------------------
(* Bounds of the model *)

\* longest input of clean_message_text run alone
MaxTextLen == 5

\* most fragments of CleanFragments joined into one input of clean_message_text
MaxFrags == 3

\* most messages of a thread fetched by get_thread_messages run alone
MaxMsgs == 2

-----------------------------------------------------------------------------
(* Python str primitives on sequences of characters *)

UpperLetters ==
    <<"A", "B", "C", "D", "E", "F", "G", "H", "I", "J", "K", "L", "M",
      "N", "O", "P", "Q", "R", "S", "T", "U", "V", "W", "X", "Y", "Z">>

LowerLetters ==
    <<"a", "b", "c", "d", "e", "f", "g", "h", "i", "j", "k", "l", "m",
      "n", "o", "p", "q", "r", "s", "t", "u", "v", "w", "x", "y", "z">>

Digits == {"0", "1", "2", "3", "4", "5", "6", "7", "8", "9"}

\* the characters str.split() and str.strip() treat as whitespace
Whitespace == {" ", "\t", "\n"}

Range(s) == {s[i] : i \in 1..Len(s)}

\* c.lower()
LowerChar(c) ==
    IF \E i \in 1..26 : UpperLetters[i] = c
    THEN LowerLetters[CHOOSE i \in 1..26 : UpperLetters[i] = c]
    ELSE c

\* s.lower()
lower(s) == [i \in 1..Len(s) |-> LowerChar(s[i])]

\* s[i:].startswith(p), i counted from 1
StartsAt(s, p, i) ==
    /\ i + Len(p) - 1 <= Len(s)
    /\ \A k \in 1..Len(p) : s[i + k - 1] = p[k]

\* p in s
Contains(s, p) == \E i \in 1..(Len(s) + 1) : StartsAt(s, p, i)

RECURSIVE ReplaceFrom(_, _, _, _)
ReplaceFrom(s, old, new, i) ==
    IF i > Len(s) THEN <<>>
    ELSE IF StartsAt(s, old, i)
         THEN new \o ReplaceFrom(s, old, new, i + Len(old))
         ELSE <<s[i]>> \o ReplaceFrom(s, old, new, i + 1)

\* s.replace(old, new), old not empty: leftmost non-overlapping occurrences
replace(s, old, new) == ReplaceFrom(s, old, new, 1)

RECURSIVE JoinWith(_, _)
\* sep.join(parts)
JoinWith(parts, sep) ==
    IF parts = <<>> THEN <<>>
    ELSE IF Len(parts) = 1 THEN parts[1]
    ELSE parts[1] \o sep \o JoinWith(Tail(parts), sep)

RECURSIVE SplitFrom(_, _, _)
\* s.split() from position i on, cur being the word under construction
SplitFrom(s, i, cur) ==
    IF i > Len(s) THEN (IF cur = <<>> THEN <<>> ELSE <<cur>>)
    ELSE IF s[i] \in Whitespace
         THEN (IF cur = <<>> THEN <<>> ELSE <<cur>>) \o SplitFrom(s, i + 1, <<>>)
         ELSE SplitFrom(s, i + 1, Append(cur, s[i]))

\* s.strip().split(): the maximal runs of non-whitespace characters
split(s) == SplitFrom(s, 1, <<>>)

-----------------------------------------------------------------------------
(* clean_message_text *)

\* the character class with the digits forgotten: [A-Z]
IdCharsLettersOnly == Range(UpperLetters)

\* the character class [A-Z0-9]
IdChars == Range(UpperLetters) \cup Digits

RECURSIVE IdRunEnd(_, _)
\* first position from i on that holds no [A-Z0-9] character
IdRunEnd(s, i) ==
    IF i <= Len(s) /\ s[i] \in IdChars THEN IdRunEnd(s, i + 1) ELSE i

\* position of the closing ">" of a match of <@[A-Z0-9]+> starting at i, else 0
MentionMatchEnd(s, i) ==
    IF StartsAt(s, <<"<", "@">>, i)
    THEN LET j == IdRunEnd(s, i + 2)
         IN  IF j > i + 2 /\ j <= Len(s) /\ s[j] = ">" THEN j ELSE 0
    ELSE 0

RECURSIVE SubMentionsFrom(_, _)
SubMentionsFrom(s, i) ==
    IF i > Len(s) THEN <<>>
    ELSE IF MentionMatchEnd(s, i) > 0
         THEN SubMentionsFrom(s, MentionMatchEnd(s, i) + 1)
         ELSE <<s[i]>> \o SubMentionsFrom(s, i + 1)

\* re.sub(r'<@[A-Z0-9]+>', '', text): one left-to-right pass
re_sub_mentions(text) == SubMentionsFrom(text, 1)

\* ' '.join(text.strip().split())
normalize_whitespace(text) == JoinWith(split(text), <<" ">>)

clean_message_text(text) == normalize_whitespace(re_sub_mentions(text))

-----------------------------------------------------------------------------
(* clean_message_text run alone on every short text over CleanAlphabet *)

CleanAlphabet == {"<", "@", ">", "U", "u", " "}

RECURSIVE TextsUpTo(_, _)
TextsUpTo(alphabet, n) ==
    IF n = 0 THEN {<<>>}
    ELSE LET shorter == TextsUpTo(alphabet, n - 1)
         IN  shorter \cup {Append(t, c) : t \in {u \in shorter : Len(u) = n - 1},
                                          c \in alphabet}

\* longer inputs: mention tokens, near-tokens, words and whitespace, joined
CleanFragments ==
    { <<"<", "@", "U", "1", ">">>,      \* a mention token
      <<"<", "@", "u", "1", ">">>,      \* lowercase id: no match of [A-Z0-9]+
      <<"<">>, <<"@", "U", "2", ">">>,  \* the halves of a token
      <<" ">>, <<"\t">>, <<"h", "i">> }

RECURSIVE FragmentTexts(_)
FragmentTexts(n) ==
    IF n = 0 THEN {<<>>}
    ELSE LET shorter == FragmentTexts(n - 1)
         IN  shorter \cup {t \o f : t \in shorter, f \in CleanFragments}

CleanInputs == TextsUpTo(CleanAlphabet, MaxTextLen) \cup FragmentTexts(MaxFrags)

NoException == ""
NoEvent == [none |-> TRUE]
NoLocals == [n \in {} |-> 0]
NoFetch == [kind |-> "not called"]
NoUsers == [u \in {} |-> "ok"]

HandlerIdle ==
    /\ body = NoEvent
    /\ locals = NoLocals
    /\ calls = <<>>
    /\ llm_calls = <<>>
    /\ replies = NoFetch
    /\ users = NoUsers
    /\ raised = NoException

InitClean ==
    /\ pc = "call"
    /\ arg \in CleanInputs
    /\ ret = <<>>
    /\ HandlerIdle

CallClean ==
    /\ pc = "call"
    /\ ret' = clean_message_text(arg)
    /\ pc' = "returned"
    /\ UNCHANGED <<body, locals, calls, llm_calls, replies, users, raised, arg>>

NextClean == CallClean

SpecClean == InitClean /\ [][NextClean]_vars

\* no leading, trailing or doubled whitespace
TidyWhitespace(s) ==
    /\ s # <<>> => s[1] \notin Whitespace /\ s[Len(s)] \notin Whitespace
    /\ \A i \in 1..(Len(s) - 1) : ~(s[i] \in Whitespace /\ s[i + 1] \in Whitespace)

\* an uppercase letter or a digit
UpperOrDigit(c) ==
    \/ \E k \in 1..26 : c = UpperLetters[k]
    \/ c \in {"0", "1", "2", "3", "4", "5", "6", "7", "8", "9"}

\* position i of s starts a token <@ID> with ID one or more of A-Z, 0-9
IsMentionToken(s, i) ==
    \E j \in (i + 3)..Len(s) :
        /\ s[i] = "<" /\ s[i + 1] = "@" /\ s[j] = ">"
        /\ \A k \in (i + 2)..(j - 1) : UpperOrDigit(s[k])

\* every "<" of s starts a mention token with an uppercase/digit id
OnlyMentionAngles(s) == \A i \in 1..Len(s) : s[i] = "<" => IsMentionToken(s, i)

\* a letter of either case or a digit
Alphanumeric(c) == UpperOrDigit(c) \/ \E k \in 1..26 : c = LowerLetters[k]

\* every "<@" of s starts a token <@ID> with an alphanumeric ID
OnlyAlphanumericMentions(s) ==
    \A i \in 1..Len(s) :
        StartsAt(s, <<"<", "@">>, i) =>
            \E j \in (i + 3)..Len(s) :
                s[j] = ">" /\ \A k \in (i + 2)..(j - 1) : Alphanumeric(s[k])

\* C9 as stated: for every input text whose "<@" all start mention tokens
\* <@ID> with alphanumeric IDs, the output of clean_message_text contains no
\* "<@" and has no leading, trailing or doubled whitespace.
C9_AlphanumericMentionsRemoved ==
    (pc = "returned" /\ OnlyAlphanumericMentions(arg)) =>
        ~Contains(ret, <<"<", "@">>) /\ TidyWhitespace(ret)

\* C9 amended: the output never has leading, trailing or doubled whitespace;
\* and when every "<" of the input starts a token <@ID> whose ID is made of
\* uppercase letters and digits, the output contains no "<@".
C9_UppercaseMentionsRemoved ==
    pc = "returned" =>
        /\ TidyWhitespace(ret)
        /\ OnlyMentionAngles(arg) => ~Contains(ret, <<"<", "@">>)

\* a text with a word, a mention token and a tab was cleaned: the token is
\* gone and the whitespace left at the end is trimmed
C9_Witness ==
    /\ pc = "returned"
    /\ arg = <<"h", "i", "<", "@", "U", "1", ">", "\t">>
    /\ ret = <<"h", "i">>

-----------------------------------------------------------------------------
(* get_thread_messages *)

U1 == <<"U", "1">>
U2 == <<"U", "2">>
UserIds == {U1, U2}

\* user_info["user"]["real_name"] of a user the platform lets the bot read
RealName(id) == IF id = U1 THEN <<"A", "n", "n">> ELSE <<"B", "o">>

\* what client.users_info(user=id) can do
LookupOutcomes ==
    { "ok",             \* returns {"ok": True, "user": {"real_name": ...}}
      "not_ok",         \* returns {"ok": False}
      "missing_scope",  \* raises SlackApiError, "missing_scope" in str(e)
      "api_error",      \* raises SlackApiError, another error
      "net_error" }     \* raises another exception

HasKey(d, k) == k \in DOMAIN d

UserDash == <<"U", "s", "e", "r", "-">>

\* the lookup with the missing_scope test forgotten: every SlackApiError is
\* re-raised
users_info_name_no_scope_test(usr, id) ==
    CASE usr[id] = "ok"            -> [exc |-> NoException, name |-> RealName(id)]
      [] usr[id] = "not_ok"        -> [exc |-> NoException, name |-> UserDash \o id]
      [] usr[id] = "missing_scope" -> [exc |-> "SlackApiError", name |-> <<>>]
      [] usr[id] = "api_error"     -> [exc |-> "SlackApiError", name |-> <<>>]
      [] usr[id] = "net_error"     -> [exc |-> "Exception", name |-> <<>>]

\* lines 91-101, and again 113-123: the name for id, or the exception that
\* leaves the inner try
users_info_name(usr, id) ==
    CASE usr[id] = "ok"            -> [exc |-> NoException, name |-> RealName(id)]
      [] usr[id] = "not_ok"        -> [exc |-> NoException, name |-> UserDash \o id]
      [] usr[id] = "missing_scope" -> [exc |-> NoException, name |-> UserDash \o id]
      [] usr[id] = "api_error"     -> [exc |-> "SlackApiError", name |-> <<>>]
      [] usr[id] = "net_error"     -> [exc |-> "Exception", name |-> <<>>]

MentionToken(id) == <<"<", "@">> \o id \o <<">">>

RECURSIVE WalkMentions(_, _, _, _)
\* lines 110-124: the loop over element["elements"] from position i on;
\* st = [exc, text] is the exception raised so far and the text so far
WalkMentions(usr, ms, i, st) ==
    IF st.exc # NoException \/ i > Len(ms) THEN st
    ELSE LET mention == ms[i] IN
         IF ~HasKey(mention, "type") THEN [st EXCEPT !.exc = "KeyError"]
         ELSE IF mention.type # "user" THEN WalkMentions(usr, ms, i + 1, st)
         ELSE IF ~HasKey(mention, "user_id") THEN [st EXCEPT !.exc = "KeyError"]
         ELSE LET r == users_info_name(usr, mention.user_id) IN
              IF r.exc # NoException THEN [st EXCEPT !.exc = r.exc]
              ELSE WalkMentions(usr, ms, i + 1,
                       [st EXCEPT !.text = replace(st.text,
                                                   MentionToken(mention.user_id),
                                                   <<"@">> \o r.name)])

RECURSIVE WalkElements(_, _, _, _)
\* lines 108-124: the loop over item["elements"]
WalkElements(usr, es, i, st) ==
    IF st.exc # NoException \/ i > Len(es) THEN st
    ELSE LET element == es[i] IN
         IF ~HasKey(element, "type") THEN [st EXCEPT !.exc = "KeyError"]
         ELSE IF element.type # "rich_text_section" THEN WalkElements(usr, es, i + 1, st)
         ELSE IF ~HasKey(element, "elements") THEN [st EXCEPT !.exc = "KeyError"]
         ELSE WalkElements(usr, es, i + 1, WalkMentions(usr, element.elements, 1, st))

RECURSIVE WalkBlocks(_, _, _, _)
\* lines 106-124: the loop over msg.get("blocks", [])
WalkBlocks(usr, items, i, st) ==
    IF st.exc # NoException \/ i > Len(items) THEN st
    ELSE LET item == items[i] IN
         IF ~HasKey(item, "type") THEN [st EXCEPT !.exc = "KeyError"]
         ELSE IF item.type # "rich_text" THEN WalkBlocks(usr, items, i + 1, st)
         ELSE IF ~HasKey(item, "elements") THEN [st EXCEPT !.exc = "KeyError"]
         ELSE WalkBlocks(usr, items, i + 1, WalkElements(usr, item.elements, 1, st))

UnknownUser == <<"U", "n", "k", "n", "o", "w", "n", " ", "U", "s", "e", "r", ":", " ">>
NoTextAvailable ==
    <<"N", "o", " ", "t", "e", "x", "t", " ", "a", "v", "a", "i", "l", "a", "b", "l", "e">>

\* lines 89-126: the body of the per-message try: the entry appended, or the
\* exception raised
ProcessMessage(usr, msg) ==
    IF ~HasKey(msg, "user") THEN [exc |-> "KeyError", entry |-> <<>>]
    ELSE LET author == users_info_name(usr, msg.user) IN
         IF author.exc # NoException THEN [exc |-> author.exc, entry |-> <<>>]
         ELSE IF ~HasKey(msg, "text") THEN [exc |-> "KeyError", entry |-> <<>>]
         ELSE LET st == WalkBlocks(usr,
                                   IF HasKey(msg, "blocks") THEN msg.blocks ELSE <<>>,
                                   1, [exc |-> NoException, text |-> msg.text])
              IN  IF st.exc # NoException THEN [exc |-> st.exc, entry |-> <<>>]
                  ELSE [exc |-> NoException,
                        entry |-> author.name \o <<":", " ">> \o st.text]

\* lines 128-132: the entry appended when processing the message raised
FallbackEntry(msg) ==
    UnknownUser \o (IF HasKey(msg, "text") THEN msg.text ELSE NoTextAvailable)

\* the loop body with the append of the except branch forgotten
EntriesForDroppingFailed(usr, msg) ==
    LET r == ProcessMessage(usr, msg)
    IN  IF r.exc = NoException THEN <<r.entry>> ELSE <<>>

\* lines 88-132 for one message: what formatted_messages gains
EntriesFor(usr, msg) ==
    LET r == ProcessMessage(usr, msg)
    IN  IF r.exc = NoException THEN <<r.entry>> ELSE <<FallbackEntry(msg)>>

RECURSIVE FormatMessages(_, _)
\* lines 87-132: formatted_messages after the loop over result["messages"]
FormatMessages(usr, msgs) ==
    IF msgs = <<>> THEN <<>>
    ELSE EntriesFor(usr, Head(msgs)) \o FormatMessages(usr, Tail(msgs))

None == [none |-> TRUE, text |-> <<>>]
Str(s) == [none |-> FALSE, text |-> s]

\* bool(x) of a str-or-None value
Truthy(x) == ~x.none /\ x.text # <<>>

\* lines 68-143: formatted_messages as the call leaves it and the value
\* returned, rep being what conversations_replies did
GetThreadRun(rep, usr) ==
    CASE rep.kind = "api_error" -> [formatted_messages |-> <<>>, value |-> None]  \* line 138
      [] rep.kind = "net_error" -> [formatted_messages |-> <<>>, value |-> None]  \* line 141
      [] rep.kind = "response" ->
           IF ~rep.ok THEN [formatted_messages |-> <<>>, value |-> None]          \* line 80
           ELSE LET formatted_messages == FormatMessages(usr, rep.messages)
                IN  [formatted_messages |-> formatted_messages,
                     value |-> Str(JoinWith(formatted_messages, <<"\n">>))]

get_thread_messages(rep, usr) == GetThreadRun(rep, usr).value

-----------------------------------------------------------------------------
(* get_thread_messages run alone on short threads *)

UserMention(id) == [type |-> "user", user_id |-> id]
TextElement == [type |-> "text"]
Section(elements) == [type |-> "rich_text_section", elements |-> elements]
RichText(elements) == [type |-> "rich_text", elements |-> elements]

TextOk == <<"o", "k">>
TextToU2 == MentionToken(U2) \o <<" ", "h", "i">>
TextToBoth == MentionToken(U2) \o <<" ">> \o MentionToken(U1) \o <<" ">> \o MentionToken(U2)

\* the shapes a message of conversations.replies takes
ThreadMessages ==
    { [user |-> U1, text |-> TextOk],
      [user |-> U2, text |-> TextToU2,
       blocks |-> <<RichText(<<Section(<<UserMention(U2), TextElement>>)>>)>>],
      [user |-> U1, text |-> TextToBoth,
       blocks |-> <<RichText(<<Section(<<UserMention(U2), UserMention(U1),
                                         UserMention(U2)>>)>>)>>],
      [text |-> TextOk],                                   \* no author
      [user |-> U1],                                       \* no text
      [user |-> U2, text |-> TextOk,
       blocks |-> <<[type |-> "divider"]>>],               \* no rich text block
      [user |-> U1, text |-> TextToU2,
       blocks |-> <<[elements |-> <<>>]>>],                \* block without type
      [user |-> U2, text |-> TextToU2,
       blocks |-> <<RichText(<<Section(<<[type |-> "user"]>>)>>)>>] }  \* no user_id

RECURSIVE ThreadsUpTo(_)
ThreadsUpTo(n) ==
    IF n = 0 THEN {<<>>}
    ELSE LET shorter == ThreadsUpTo(n - 1)
         IN  shorter \cup {Append(t, m) : t \in {u \in shorter : Len(u) = n - 1},
                                          m \in ThreadMessages}

Response(ok, messages) == [kind |-> "response", ok |-> ok, messages |-> messages]

\* what client.conversations_replies can do
FetchFailures ==
    { [kind |-> "api_error"],        \* raises SlackApiError
      [kind |-> "net_error"],        \* raises another exception
      Response(FALSE, <<>>) }        \* returns {"ok": False}

InitThread ==
    /\ pc = "call"
    /\ replies \in FetchFailures \cup {Response(TRUE, t) : t \in ThreadsUpTo(MaxMsgs)}
    /\ users \in [UserIds -> LookupOutcomes]
    /\ arg = <<>>
    /\ ret = [formatted_messages |-> <<>>, value |-> None]
    /\ body = NoEvent
    /\ locals = NoLocals
    /\ calls = <<>>
    /\ llm_calls = <<>>
    /\ raised = NoException

CallThread ==
    /\ pc = "call"
    /\ ret' = GetThreadRun(replies, users)
    /\ pc' = "returned"
    /\ UNCHANGED <<body, locals, calls, llm_calls, replies, users, raised, arg>>

NextThread == CallThread

SpecThread == InitThread /\ [][NextThread]_vars

\* the fetch succeeded: a response with ok true
FetchSucceeded == replies.kind = "response" /\ replies.ok

\* users_info for id ends in an exception that is not the missing-scope denial
LookupFails(id) == users[id] \in {"api_error", "net_error"}

\* users_info for id is denied for lack of the read scope
LookupDenied(id) == users[id] = "missing_scope"

\* the name a user is shown under
DisplayName(id) == IF users[id] = "ok" THEN RealName(id) ELSE UserDash \o id

\* the user mentions the loops of lines 106-111 reach in msg
ReachedMentions(msg) ==
    IF ~HasKey(msg, "blocks") THEN {}
    ELSE { m \in UNION { Range(e.elements) :
                 e \in { e \in UNION { Range(b.elements) :
                               b \in { b \in Range(msg.blocks) :
                                       HasKey(b, "type") /\ b.type = "rich_text"
                                       /\ HasKey(b, "elements") } } :
                         HasKey(e, "type") /\ e.type = "rich_text_section"
                         /\ HasKey(e, "elements") } } :
           HasKey(m, "type") /\ m.type = "user" }

\* some block, element or mention of msg lacks a key the loops read
MalformedBlocks(msg) ==
    /\ HasKey(msg, "blocks")
    /\ \/ \E b \in Range(msg.blocks) :
              \/ ~HasKey(b, "type")
              \/ b.type = "rich_text" /\ ~HasKey(b, "elements")
              \/ /\ b.type = "rich_text" /\ HasKey(b, "elements")
                 /\ \E e \in Range(b.elements) :
                        \/ ~HasKey(e, "type")
                        \/ e.type = "rich_text_section" /\ ~HasKey(e, "elements")
                        \/ /\ e.type = "rich_text_section" /\ HasKey(e, "elements")
                           /\ \E m \in Range(e.elements) : ~HasKey(m, "type")
       \/ \E m \in ReachedMentions(msg) : ~HasKey(m, "user_id")

\* processing msg raises: a key is missing or a lookup fails
ProcessingFails(msg) ==
    \/ ~HasKey(msg, "user")
    \/ ~HasKey(msg, "text")
    \/ LookupFails(msg.user)
    \/ MalformedBlocks(msg)
    \/ \E m \in ReachedMentions(msg) : LookupFails(m.user_id)

\* C4: when the fetch succeeds with n messages the transcript has n entries,
\* the i-th made from the i-th message: "Unknown User: {text}" when its
\* processing failed, "{DisplayName}: {text}" otherwise, whatever the
\* lookups of the other messages did.
C4_OneEntryPerMessageInOrder ==
    (pc = "returned" /\ FetchSucceeded) =>
        LET entries == ret.formatted_messages
            msgs == replies.messages
        IN  /\ Len(entries) = Len(msgs)
            /\ ~ret.value.none
            /\ \A i \in 1..Len(msgs) :
                 IF ProcessingFails(msgs[i])
                 THEN entries[i] = UnknownUser \o (IF HasKey(msgs[i], "text")
                                                   THEN msgs[i].text
                                                   ELSE NoTextAvailable)
                 ELSE /\ StartsAt(entries[i], DisplayName(msgs[i].user) \o <<":", " ">>, 1)
                      /\ ReachedMentions(msgs[i]) = {} =>
                           entries[i] = DisplayName(msgs[i].user) \o <<":", " ">>
                                        \o msgs[i].text

\* a two-message thread whose first message failed (its author's lookup
\* raised) and whose second was rendered with the author's real name
C4_Witness ==
    /\ pc = "returned" /\ FetchSucceeded
    /\ Len(replies.messages) = 2
    /\ replies.messages[1] = [user |-> U1, text |-> TextOk]
    /\ replies.messages[2] = [user |-> U2, text |-> TextOk, blocks |-> <<[type |-> "divider"]>>]
    /\ users[U1] = "net_error" /\ users[U2] = "ok"
    /\ ret.formatted_messages = << UnknownUser \o TextOk,
                                   <<"B", "o", ":", " ">> \o TextOk >>

\* no lookup of msg, author or mention, fails other than by the denial
OnlyDenials(msg) ==
    /\ HasKey(msg, "user") /\ HasKey(msg, "text") /\ ~MalformedBlocks(msg)
    /\ ~LookupFails(msg.user)
    /\ \A m \in ReachedMentions(msg) : ~LookupFails(m.user_id)

\* C7: a lookup denied for lack of read scope yields "User-{id}" and raises
\* nothing, for the author and for each mention: the message is a normal
\* "{name}: {text}" entry, not an "Unknown User" one, and the other mentions
\* and messages are processed as well.
C7_DeniedLookupGivesPlaceholder ==
    (pc = "returned" /\ FetchSucceeded) =>
        LET entries == ret.formatted_messages
            msgs == replies.messages
        IN  /\ Len(entries) = Len(msgs)
            /\ \A i \in 1..Len(msgs) :
                 (i <= Len(entries) /\ OnlyDenials(msgs[i])) =>
                    /\ ~StartsAt(entries[i], UnknownUser, 1)
                    /\ LookupDenied(msgs[i].user) =>
                         StartsAt(entries[i], UserDash \o msgs[i].user \o <<":", " ">>, 1)
                    /\ \A m \in ReachedMentions(msgs[i]) :
                         /\ ~Contains(entries[i], MentionToken(m.user_id))
                         /\ (LookupDenied(m.user_id)
                             /\ Contains(msgs[i].text, MentionToken(m.user_id))) =>
                               Contains(entries[i], <<"@">> \o UserDash \o m.user_id)

\* both lookups are denied; a message by U1 mentioning U2 and U1 is rendered
\* with placeholders throughout, and the message after it is rendered too
C7_Witness ==
    /\ pc = "returned" /\ FetchSucceeded
    /\ users[U1] = "missing_scope" /\ users[U2] = "missing_scope"
    /\ Len(replies.messages) = 2
    /\ replies.messages[1] =
         [user |-> U1, text |-> TextToBoth,
          blocks |-> <<RichText(<<Section(<<UserMention(U2), UserMention(U1),
                                            UserMention(U2)>>)>>)>>]
    /\ replies.messages[2] = [user |-> U2, text |-> TextOk, blocks |-> <<[type |-> "divider"]>>]
    /\ ret.formatted_messages =
         << UserDash \o U1 \o <<":", " ", "@">> \o UserDash \o U2 \o <<" ", "@">>
              \o UserDash \o U1 \o <<" ", "@">> \o UserDash \o U2,
            UserDash \o U2 \o <<":", " ">> \o TextOk >>

-----------------------------------------------------------------------------
(* handle_mention *)

\* line 169: the phrases that ask for a thread summary
SummaryCommands ==
    << <<"s", "u", "m", "m", "a", "r", "i", "z", "e", " ", "t", "h", "r", "e", "a", "d">>,
       <<"s", "u", "m", "a", "r", "i", "z", "e", " ", "t", "h", "r", "e", "a", "d">>,
       <<"t", "h", "r", "e", "a", "d", " ", "s", "u", "m", "m", "a", "r", "y">> >>

\* the test of line 169 with the last phrase forgotten
is_summary_request_two_phrases(cleaned_text) ==
    \E k \in 1..2 : Contains(cleaned_text, SummaryCommands[k])

\* line 169: any(cmd in cleaned_text for cmd in [...])
is_summary_request(cleaned_text) ==
    \E k \in 1..Len(SummaryCommands) : Contains(cleaned_text, SummaryCommands[k])

\* line 173: 'private' in cleaned_text or 'me only' in cleaned_text
is_private_request(cleaned_text) ==
    \/ Contains(cleaned_text, <<"p", "r", "i", "v", "a", "t", "e">>)
    \/ Contains(cleaned_text, <<"m", "e", " ", "o", "n", "l", "y">>)

\* the reply literals
SummaryHeader == "*Thread Summary:*\n\n"
SummaryNote == "\n\n_Note: This summary was generated using AI and may not be perfect._"
PrivateFailureNotice ==
    "I encountered an error sending you a private message. Please check my permissions."
FetchErrorMsg ==
    "I couldn't fetch the thread messages. This might be because:\n1. I don't have permission to access the channel history\n2. The thread is too old or has been deleted\n3. There was an error connecting to Slack\n\nPlease make sure I have the necessary permissions and try again."
ChatFallback == "I couldn't generate a response. Please try rephrasing your question."
KeyErrorApology == "I encountered an error processing your message. Please try again."
ExceptionApology == "I encountered an unexpected error. Please try again later."

\* lines 183-184, passed on as one piece in front of the transcript
SummaryDirective ==
    "Please summarize the following Slack conversation, focusing on key points, decisions, and action items:\n\n"

\* lines 191-195
FormatSummary(response) == SummaryHeader \o response \o SummaryNote

\* what a chain's invoke can return (it can also raise)
ChatAnswers == {"", "an answer"}
Summaries == {"", "a summary"}

\* what say and chat_postEphemeral can do
DeliveryOutcomes ==
    { "ok",          \* the message is posted
      "api_error",   \* raises SlackApiError
      "net_error" }  \* raises another exception

Bind(name, value) == name :> value

\* a call of say(text=..., thread_ts=...)
SayCall(text, thread_ts, outcome) ==
    [api |-> "say", user |-> <<>>, text |-> text, thread_ts |-> thread_ts,
     outcome |-> outcome]

\* a call of client.chat_postEphemeral(channel=, user=, text=, thread_ts=)
EphemeralCall(user, text, thread_ts, outcome) ==
    [api |-> "chat_postEphemeral", user |-> user, text |-> text,
     thread_ts |-> thread_ts, outcome |-> outcome]

\* lines 158-161 read these keys of body['event'], in this order
EventKeys == <<"text", "user", "channel", "ts">>
LocalOf(key) == IF key = "ts" THEN "event_ts" ELSE key

RECURSIVE ReadEvent(_, _, _)
\* lines 158-161: the names bound before the first missing key
ReadEvent(event, i, bound) ==
    IF i > Len(EventKeys) \/ ~HasKey(event, EventKeys[i]) THEN bound
    ELSE ReadEvent(event, i + 1, bound @@ Bind(LocalOf(EventKeys[i]), event[EventKeys[i]]))

\* lines 157-173: read the event, normalize the text, choose the path
Receive ==
    /\ pc = "start"
    /\ IF ~HasKey(body, "event")
       THEN /\ locals' = NoLocals
            /\ pc' = "except KeyError"
       ELSE LET read == ReadEvent(body.event, 1, NoLocals) IN
            IF \E i \in 1..Len(EventKeys) : ~HasKey(body.event, EventKeys[i])
            THEN /\ locals' = read
                 /\ pc' = "except KeyError"
            ELSE LET thread_ts == IF HasKey(body.event, "thread_ts")
                                  THEN body.event.thread_ts
                                  ELSE read.event_ts                 \* line 162
                     cleaned_text == lower(clean_message_text(read.text))  \* line 165
                 IN  IF is_summary_request(cleaned_text)
                     THEN /\ locals' = read @@ Bind("thread_ts", thread_ts)
                                            @@ Bind("cleaned_text", cleaned_text)
                                            @@ Bind("is_private", is_private_request(cleaned_text))
                          /\ pc' = "get_thread_messages"
                     ELSE /\ locals' = read @@ Bind("thread_ts", thread_ts)
                                            @@ Bind("cleaned_text", cleaned_text)
                          /\ pc' = "chat_chain.invoke"
    /\ UNCHANGED <<body, calls, llm_calls, replies, users, raised, arg, ret>>

\* the threads the platform returns to the handler
HandlerThreads ==
    { <<>>,
      <<[user |-> U1, text |-> TextOk]>>,
      <<[text |-> TextOk]>>,
      <<[user |-> U2, text |-> TextToU2,
         blocks |-> <<RichText(<<Section(<<UserMention(U2), TextElement>>)>>)>>],
        [user |-> U1]>> }

HandlerLookups == [UserIds -> {"ok", "missing_scope", "net_error"}]

\* lines 176-178: fetch the thread; a falsy result takes the else branch
FetchThread ==
    /\ pc = "get_thread_messages"
    /\ \E rep \in FetchFailures \cup {Response(TRUE, t) : t \in HandlerThreads},
          usr \in HandlerLookups :
          LET thread_messages == get_thread_messages(rep, usr) IN
          /\ replies' = rep
          /\ users' = usr
          /\ locals' = locals @@ Bind("thread_messages", thread_messages)
          /\ pc' = IF Truthy(thread_messages) THEN "summarize_chain.invoke"
                                              ELSE "send fetch error"
    /\ UNCHANGED <<body, calls, llm_calls, raised, arg, ret>>

\* lines 181-195: ask the model for the summary and format it
InvokeSummarize ==
    /\ pc = "summarize_chain.invoke"
    /\ llm_calls' = Append(llm_calls,
                           [chain |-> "summarize",
                            input |-> <<SummaryDirective>> \o locals.thread_messages.text])
    /\ \/ /\ pc' = "except Exception"
          /\ UNCHANGED locals
       \/ \E response \in Summaries :
             /\ locals' = locals @@ Bind("response", response)
                                 @@ Bind("formatted_response", FormatSummary(response))
             /\ pc' = "send summary"
    /\ UNCHANGED <<body, calls, replies, users, raised, arg, ret>>

\* the delivery with the privacy flag ignored: always the public reply
DeliverPublicly(text) ==
    \E outcome \in DeliveryOutcomes :
        /\ calls' = Append(calls, SayCall(text, locals.event_ts, outcome))
        /\ pc' = IF outcome = "ok" THEN "done" ELSE "except Exception"

\* lines 197-212 and 222-235: send text with the visibility asked for
Deliver(text) ==
    \E outcome \in DeliveryOutcomes :
        IF locals.is_private
        THEN /\ calls' = Append(calls, EphemeralCall(locals.user, text,
                                                     locals.thread_ts, outcome))
             /\ pc' = CASE outcome = "ok" -> "done"
                        [] outcome = "api_error" -> "except SlackApiError"
                        [] outcome = "net_error" -> "except Exception"
        ELSE /\ calls' = Append(calls, SayCall(text, locals.event_ts, outcome))
             /\ pc' = IF outcome = "ok" THEN "done" ELSE "except Exception"

\* lines 197-212
SendSummary ==
    /\ pc = "send summary"
    /\ Deliver(locals.formatted_response)
    /\ UNCHANGED <<body, locals, llm_calls, replies, users, raised, arg, ret>>

\* lines 213-235
SendFetchError ==
    /\ pc = "send fetch error"
    /\ Deliver(FetchErrorMsg)
    /\ UNCHANGED <<body, locals, llm_calls, replies, users, raised, arg, ret>>

\* lines 206-209 and 230-233: the private message could not be posted
SendPrivateFailureNotice ==
    /\ pc = "except SlackApiError"
    /\ \E outcome \in DeliveryOutcomes :
          /\ calls' = Append(calls, SayCall(PrivateFailureNotice, locals.event_ts, outcome))
          /\ pc' = IF outcome = "ok" THEN "done" ELSE "except Exception"
    /\ UNCHANGED <<body, locals, llm_calls, replies, users, raised, arg, ret>>

\* line 238
InvokeChat ==
    /\ pc = "chat_chain.invoke"
    /\ llm_calls' = Append(llm_calls, [chain |-> "chat", input |-> locals.cleaned_text])
    /\ \/ /\ pc' = "except Exception"
          /\ UNCHANGED locals
       \/ \E response \in ChatAnswers :
             /\ locals' = locals @@ Bind("response", response)
             /\ pc' = "send answer"
    /\ UNCHANGED <<body, calls, replies, users, raised, arg, ret>>

\* the reply with the else branch forgotten: an empty answer sends nothing
SendAnswerUnlessEmpty ==
    /\ pc = "send answer"
    /\ IF locals.response # ""
       THEN \E outcome \in DeliveryOutcomes :
               /\ calls' = Append(calls, SayCall(locals.response, locals.event_ts, outcome))
               /\ pc' = IF outcome = "ok" THEN "done" ELSE "except Exception"
       ELSE /\ pc' = "done"
            /\ UNCHANGED calls
    /\ UNCHANGED <<body, locals, llm_calls, replies, users, raised, arg, ret>>

\* lines 239-243
SendAnswer ==
    /\ pc = "send answer"
    /\ \E outcome \in DeliveryOutcomes :
          /\ calls' = Append(calls,
                             SayCall(IF locals.response # "" THEN locals.response
                                                              ELSE ChatFallback,
                                     locals.event_ts, outcome))
          /\ pc' = IF outcome = "ok" THEN "done" ELSE "except Exception"
    /\ UNCHANGED <<body, locals, llm_calls, replies, users, raised, arg, ret>>

\* lines 248 and 253: say(text=apology, thread_ts=body['event']['ts']) inside
\* an except clause of the outer try: whatever it raises leaves the function
Apologize(apology) ==
    IF ~HasKey(body, "event") \/ ~HasKey(body.event, "ts")
    THEN /\ raised' = "KeyError"
         /\ pc' = "raised"
         /\ UNCHANGED calls
    ELSE \E outcome \in DeliveryOutcomes :
            /\ calls' = Append(calls, SayCall(apology, body.event.ts, outcome))
            /\ raised' = CASE outcome = "ok" -> NoException
                           [] outcome = "api_error" -> "SlackApiError"
                           [] outcome = "net_error" -> "Exception"
            /\ pc' = IF outcome = "ok" THEN "done" ELSE "raised"

\* lines 245-248
ApologizeKeyError ==
    /\ pc = "except KeyError"
    /\ Apologize(KeyErrorApology)
    /\ UNCHANGED <<body, locals, llm_calls, replies, users, arg, ret>>

\* lines 249-253
ApologizeException ==
    /\ pc = "except Exception"
    /\ Apologize(ExceptionApology)
    /\ UNCHANGED <<body, locals, llm_calls, replies, users, arg, ret>>

-----------------------------------------------------------------------------
(* the events handle_mention is called with *)

BotMention == <<"<", "@", "U", "0", "B", "O", "T", ">", " ">>

EventTextCores ==
    { <<"s", "u", "m", "m", "a", "r", "i", "z", "e", " ", "t", "h", "r", "e", "a", "d">>,
      <<"S", "u", "m", "m", "a", "r", "i", "z", "e", " ", " ", "T", "H", "R", "E", "A", "D">>,
      <<"s", "u", "m", "a", "r", "i", "z", "e", " ", "t", "h", "r", "e", "a", "d">>,
      <<"t", "h", "r", "e", "a", "d", " ", "s", "u", "m", "m", "a", "r", "y">>,
      <<"s", "u", "m", "m", "a", "r", "i", "z", "e", " ", "<", "@", "U", "1", ">", " ",
        "t", "h", "r", "e", "a", "d">>,
      <<"s", "u", "m", "m", "a", "r", "i", "z", "e", " ", "t", "h", "e", " ",
        "t", "h", "r", "e", "a", "d">>,
      <<"t", "h", "r", "e", "a", "d", " ", "s", "u", "m", "m", "a", "r", "i", "e", "s">>,
      <<"h", "e", "l", "l", "o">> }

EventTextEndings ==
    { <<>>,
      <<" ", "p", "r", "i", "v", "a", "t", "e">>,
      <<" ", "f", "o", "r", " ", "M", "e", " ", "O", "n", "l", "y">> }

EventTexts ==
    { pre \o core \o ending : pre \in {<<>>, BotMention},
                              core \in EventTextCores,
                              ending \in EventTextEndings }

\* the event's own ts, and the ts of an older message that roots its thread
Timestamps == [root |-> 1, event |-> 2]
EventTs == Timestamps.event
RootTs == Timestamps.root

MentionEvent(text) == [text |-> text, user |-> U1, channel |-> "C1", ts |-> EventTs]

WithThread(event, thread_ts) ==
    [k \in DOMAIN event \cup {"thread_ts"} |->
        IF k = "thread_ts" THEN thread_ts ELSE event[k]]

Without(event, key) == [k \in DOMAIN event \ {key} |-> event[k]]

WellFormedBodies ==
    { [event |-> e] :
        e \in UNION { {MentionEvent(t),
                       WithThread(MentionEvent(t), RootTs),
                       WithThread(MentionEvent(t), EventTs)} : t \in EventTexts } }

MalformedBodies ==
    { [type |-> "event_callback"] }
    \cup { [event |-> Without(MentionEvent(<<"h", "i">>), k)] :
             k \in Range(EventKeys) }

InitHandler ==
    /\ pc = "start"
    /\ body \in WellFormedBodies \cup MalformedBodies
    /\ locals = NoLocals
    /\ calls = <<>>
    /\ llm_calls = <<>>
    /\ replies = NoFetch
    /\ users = NoUsers
    /\ raised = NoException
    /\ arg = <<>>
    /\ ret = <<>>

Next ==
    \/ Receive
    \/ FetchThread
    \/ InvokeSummarize
    \/ SendSummary
    \/ SendFetchError
    \/ SendPrivateFailureNotice
    \/ InvokeChat
    \/ SendAnswer
    \/ ApologizeKeyError
    \/ ApologizeException

Spec == InitHandler /\ [][Next]_vars

-----------------------------------------------------------------------------
(* properties of handle_mention *)

\* handle_mention has returned or raised
Finished == pc \in {"done", "raised"}

\* the event carries text, user, channel and ts
CompleteEvent ==
    HasKey(body, "event") /\ \A i \in 1..Len(EventKeys) : HasKey(body.event, EventKeys[i])

SayCalls == {i \in 1..Len(calls) : calls[i].api = "say"}
EphemeralCalls == {i \in 1..Len(calls) : calls[i].api = "chat_postEphemeral"}
FailedCalls == {i \in 1..Len(calls) : calls[i].outcome # "ok"}
DeliveredCalls == {i \in 1..Len(calls) : calls[i].outcome = "ok"}

\* a summary was produced for a request with the privacy flag set
PrivateSummary ==
    HasKey(locals, "formatted_response") /\ locals.is_private

\* the summary went only through chat_postEphemeral, to the requesting user
SummaryOnlyRestricted ==
    \A i \in 1..Len(calls) :
        calls[i].text = locals.formatted_response =>
            calls[i].api = "chat_postEphemeral" /\ calls[i].user = body.event.user

\* the restricted delivery of the summary was tried and failed
RestrictedDeliveryFailed ==
    /\ Len(calls) >= 1
    /\ calls[1].api = "chat_postEphemeral"
    /\ calls[1].text = locals.formatted_response
    /\ calls[1].outcome # "ok"

\* C1 as stated: a private summary is passed only to the restricted call
\* addressed to the requester, never to say; when the restricted delivery
\* fails the only public text is the private-message-error notice.
C1_OnlyNoticeAfterFailedPrivateDelivery ==
    PrivateSummary =>
        /\ SummaryOnlyRestricted
        /\ RestrictedDeliveryFailed =>
             \A i \in SayCalls : calls[i].text = PrivateFailureNotice

\* C1 amended: a private summary is passed only to the restricted call
\* addressed to the requester, never to say; when the restricted delivery
\* fails with a SlackApiError the public text is the private-message-error
\* notice, followed by the unexpected-error apology if the notice cannot be
\* posted; when it fails with another exception the only public text is the
\* unexpected-error apology.
C1_SummaryNeverPublic ==
    PrivateSummary =>
        /\ SummaryOnlyRestricted
        /\ (RestrictedDeliveryFailed /\ Finished) =>
             /\ \A i \in SayCalls : calls[i].text \in {PrivateFailureNotice, ExceptionApology}
             /\ IF calls[1].outcome = "api_error"
                THEN /\ Len(calls) >= 2 /\ calls[2].text = PrivateFailureNotice
                     /\ IF calls[2].outcome = "ok" THEN Len(calls) = 2
                        ELSE Len(calls) = 3 /\ calls[3].text = ExceptionApology
                ELSE Len(calls) = 2 /\ calls[2].text = ExceptionApology

\* the private summary could not be posted (SlackApiError) and the notice was
C1_Witness ==
    /\ pc = "done" /\ PrivateSummary
    /\ locals.response = "a summary"
    /\ Len(calls) = 2
    /\ calls[1] = EphemeralCall(U1, FormatSummary("a summary"), RootTs, "api_error")
    /\ calls[2] = SayCall(PrivateFailureNotice, EventTs, "ok")

\* C2: whatever the body and whichever call fails, handle_mention returns
\* without an exception leaving it, and what an except clause sends is one of
\* the two fixed apologies.
C2_NoExceptionLeavesHandler ==
    Finished =>
        /\ pc = "done" /\ raised = NoException
        /\ \A i \in SayCalls :
             i > 1 /\ calls[i - 1].outcome # "ok" =>
                calls[i].text \in {KeyErrorApology, ExceptionApology, PrivateFailureNotice}

\* C3: every reply, by say or by chat_postEphemeral, carries the event's
\* thread_ts when it has one and the event's own ts otherwise.
C3_RepliesAnchoredToThread ==
    \A i \in 1..Len(calls) :
        calls[i].thread_ts = IF HasKey(body.event, "thread_ts")
                             THEN body.event.thread_ts
                             ELSE body.event.ts

\* the three-cause error message is being sent or was sent
FetchErrorBranch ==
    pc = "send fetch error" \/ \E i \in 1..Len(calls) : calls[i].text = FetchErrorMsg

\* C5: the handler takes the fetch-failure branch only when the fetch itself
\* failed; after a successful fetch nothing in the returned list leads there.
C5_FetchErrorOnlyWhenFetchFailed ==
    FetchErrorBranch => ~FetchSucceeded

\* conversations_replies was called and raised or returned ok=false
FetchFailed == replies # NoFetch /\ ~FetchSucceeded

\* C6: when the fetch fails the model is never invoked, the three-cause
\* message goes out on the channel the request asked for (restricted, to the
\* requester, when the privacy flag is set; public otherwise), and the
\* handler does not throw.
C6_FetchFailureReportedWithoutThrowing ==
    FetchFailed =>
        /\ llm_calls = <<>>
        /\ pc # "raised"
        /\ Len(calls) >= 1 =>
             /\ calls[1].text = FetchErrorMsg
             /\ calls[1].api = IF locals.is_private THEN "chat_postEphemeral" ELSE "say"
             /\ locals.is_private => calls[1].user = body.event.user
        /\ Finished => Len(calls) >= 1

\* the text was normalized and a path chosen
Classified == HasKey(locals, "cleaned_text")

OnSummarizePath == pc = "get_thread_messages" \/ replies # NoFetch
OnChatPath ==
    pc = "chat_chain.invoke" \/ (llm_calls # <<>> /\ llm_calls[1].chain = "chat")

HasSummaryPhrase(t) ==
    \/ Contains(t, <<"s", "u", "m", "m", "a", "r", "i", "z", "e", " ", "t", "h", "r", "e", "a", "d">>)
    \/ Contains(t, <<"s", "u", "m", "a", "r", "i", "z", "e", " ", "t", "h", "r", "e", "a", "d">>)
    \/ Contains(t, <<"t", "h", "r", "e", "a", "d", " ", "s", "u", "m", "m", "a", "r", "y">>)

HasPrivacyPhrase(t) ==
    \/ Contains(t, <<"p", "r", "i", "v", "a", "t", "e">>)
    \/ Contains(t, <<"m", "e", " ", "o", "n", "l", "y">>)

\* the normalized lowercase text is what line 165 makes of the event text
NormalizedText ==
    locals.cleaned_text = lower(clean_message_text(body.event.text))

\* C8 as stated: the summarize path is taken iff the normalized lowercase
\* text contains one of the three phrases, the chat path otherwise; and the
\* privacy flag is true iff the text contains "private" or "me only", on
\* either path.
C8_PrivacyFlagOnEitherPath ==
    Classified =>
        /\ NormalizedText
        /\ OnSummarizePath <=> HasSummaryPhrase(locals.cleaned_text)
        /\ OnChatPath <=> ~HasSummaryPhrase(locals.cleaned_text)
        /\ (HasKey(locals, "is_private") /\ locals.is_private)
              <=> HasPrivacyPhrase(locals.cleaned_text)

\* C8 amended: the summarize path is taken iff the normalized lowercase text
\* contains one of the three phrases, the chat path otherwise; on the
\* summarize path the privacy flag is true iff the text contains "private" or
\* "me only"; on the chat path no privacy flag exists and every reply is
\* public.
C8_ClassifiedBySubstring ==
    Classified =>
        /\ NormalizedText
        /\ OnSummarizePath <=> HasSummaryPhrase(locals.cleaned_text)
        /\ OnChatPath <=> ~HasSummaryPhrase(locals.cleaned_text)
        /\ OnSummarizePath =>
             /\ HasKey(locals, "is_private")
             /\ locals.is_private <=> HasPrivacyPhrase(locals.cleaned_text)
        /\ OnChatPath =>
             /\ ~HasKey(locals, "is_private")
             /\ EphemeralCalls = {}

\* "<@U0BOT> thread summary for Me Only" took the summarize path with the
\* privacy flag set
C8_Witness ==
    /\ pc = "get_thread_messages"
    /\ body.event.text = BotMention
          \o <<"t", "h", "r", "e", "a", "d", " ", "s", "u", "m", "m", "a", "r", "y">>
          \o <<" ", "f", "o", "r", " ", "M", "e", " ", "O", "n", "l", "y">>
    /\ locals.cleaned_text =
          <<"t", "h", "r", "e", "a", "d", " ", "s", "u", "m", "m", "a", "r", "y",
            " ", "f", "o", "r", " ", "m", "e", " ", "o", "n", "l", "y">>
    /\ locals.is_private

\* C10: for an event with text, user, channel and ts, on every path at most
\* one message is delivered, and exactly one once the handler has finished
\* with no delivery call having failed: never silence, never a duplicate.
C10_OneReplyPerEvent ==
    CompleteEvent =>
        /\ Cardinality(DeliveredCalls) <= 1
        /\ (Finished /\ FailedCalls = {}) => Cardinality(DeliveredCalls) = 1

\* the model returned nothing on the chat path and the fallback was posted
C10_Witness ==
    /\ pc = "done" /\ CompleteEvent
    /\ llm_calls # <<>> /\ llm_calls[1].chain = "chat"
    /\ HasKey(locals, "response") /\ locals.response = ""
    /\ calls = <<SayCall(ChatFallback, EventTs, "ok")>>

====
